---- MODULE Spec2Model ----
(***************************************************************************)
(* A model of bsky-rmcp's tool handlers (src/src/service.rs) and of the    *)
(* helpers they call (src/src/utils.rs, src/src/types.rs).                 *)
(*                                                                         *)
(* The remote service behind BskyAgent is the environment: its state (the  *)
(* notification feed, the thread of every post, which requests fail, the   *)
(* session identity) is chosen in Init and never changes, so that          *)
(* invocations can be compared against identical upstream state.           *)
(***************************************************************************)
EXTENDS Integers, Sequences, FiniteSets, Bags, TLC

(***************************************************************************)
(* Bounds of the model.                                                    *)
(***************************************************************************)
\* The longest notification feed the upstream holds.
MaxNotifs == 2

(***************************************************************************)
(* Option<T>: None is the empty sequence, Some(x) the sequence <<x>>.      *)
(***************************************************************************)
None == <<>>
Some(x) == <<x>>
unwrap_or(o, d) == IF o = None THEN d ELSE o[1]

Min(a, b) == IF a <= b THEN a ELSE b
Range(s) == {s[k] : k \in 1..Len(s)}
RECURSIVE SeqsUpTo(_, _)
SeqsUpTo(S, n) ==
    IF n = 0 THEN {<<>>}
    ELSE LET shorter == SeqsUpTo(S, n - 1)
         IN  shorter \cup {Append(s, x) : s \in {t \in shorter : Len(t) = n - 1}, x \in S}

(***************************************************************************)
(* types.rs                                                                *)
(***************************************************************************)
DEFAULT_LIMIT == 10
DEFAULT_DEPTH == 1
DEFAULT_PARENT_HEIGHT == 10

ReasonEnum ==
    {"Like", "Repost", "Follow", "Mention", "Reply", "Quote",
     "StarterpackJoined", "Verified", "Unverified"}

\* impl fmt::Display for ReasonEnum
ReasonToString(r) ==
    CASE r = "Like" -> "like"
      [] r = "Repost" -> "repost"
      [] r = "Follow" -> "follow"
      [] r = "Mention" -> "mention"
      [] r = "Reply" -> "reply"
      [] r = "Quote" -> "quote"
      [] r = "StarterpackJoined" -> "starterpack-joined"
      [] r = "Verified" -> "verified"
      [] r = "Unverified" -> "unverified"

\* params.reasons.iter().map(|r| r.to_string()).collect()
ReasonsToStrings(rs) == [k \in 1..Len(rs) |-> ReasonToString(rs[k])]

(***************************************************************************)
(* The limited integer types of the request parameters: try_into() of a    *)
(* u8 into LimitedNonZeroU8<100> and of a u16 into LimitedU16<1000>.       *)
(***************************************************************************)
LIMIT_MAX == 100
DEPTH_MAX == 1000
\* LimitedU16::MIN
LimitedU16_MIN == 0

\* Result of try_into(): [ok, value].
LimitedNonZeroU8_try_from(v) ==
    IF v >= 1 /\ v <= LIMIT_MAX THEN [ok |-> TRUE, value |-> v]
    ELSE [ok |-> FALSE, value |-> 0]

LimitedU16_try_from(v) ==
    IF v <= DEPTH_MAX THEN [ok |-> TRUE, value |-> v]
    ELSE [ok |-> FALSE, value |-> 0]

(***************************************************************************)
(* utils.rs: convert_datetime re-renders every "...At" timestamp in the    *)
(* local time zone: the instant is kept, the zone becomes the local one.   *)
(***************************************************************************)
Datetime(instant, zone) == [instant |-> instant, zone |-> zone]
ConvertTimestamp(dt) == Datetime(dt.instant, "local")
convert_datetime_notification(n) == [n EXCEPT !.indexedAt = ConvertTimestamp(@)]
convert_datetime(ns) == [k \in 1..Len(ns) |-> convert_datetime_notification(ns[k])]

(***************************************************************************)
(* The data of the remote service.                                         *)
(***************************************************************************)
SelfDid == "did:plc:self"
OtherDid == "did:plc:other"
Uri1 == "at://did:plc:a/app.bsky.feed.post/1"
Uri2 == "at://did:plc:a/app.bsky.feed.post/2"
NotifUris == {Uri1, Uri2}

\* The reasons a notification of the feed may carry, as wire strings.
FeedReason(u) == IF u = Uri1 THEN "reply" ELSE "mention"
Notification(u, reason) ==
    [uri |-> u, reason |-> reason, indexedAt |-> Datetime(u, "utc")]
FeedNotifications == {Notification(u, FeedReason(u)) : u \in NotifUris}

PostView(u, author) == [uri |-> u, author |-> author]
\* An item of ThreadViewPost.replies: a thread view post (with its own replies),
\* a not-found post or a blocked post.
ReplyItem(kind, author, replies) ==
    [kind |-> kind, post |-> PostView("at://reply", author), replies |-> replies]
\* A direct reply of the user.
ReplyOfSelf == ReplyItem("threadViewPost", SelfDid, None)
\* A direct reply of somebody else, under which the user has replied.
ReplyWithNestedSelf == ReplyItem("threadViewPost", OtherDid, Some(<<ReplyOfSelf>>))
\* A direct reply that is no thread view post.
BlockedReply == ReplyItem("blockedPost", OtherDid, None)
\* The lists of direct replies the service may hold.
ReplyLists ==
    { <<>>, <<ReplyOfSelf>>, <<ReplyWithNestedSelf>>, <<BlockedReply>>,
      <<ReplyWithNestedSelf, ReplyOfSelf>>, <<BlockedReply, ReplyOfSelf>> }

ThreadView(kind, u, replies) ==
    [kind |-> kind, post |-> PostView(u, OtherDid), replies |-> replies]
\* The thread views the service may hold for post u: output.thread of getPostThread.
ThreadViews(u) ==
    { ThreadView("notFoundPost", u, None), ThreadView("threadViewPost", u, None) }
    \cup { ThreadView("threadViewPost", u, Some(rs)) : rs \in ReplyLists }
\* Fewer thread views, for the specification of overlapping invocations.
FewThreadViews(u) ==
    { ThreadView("threadViewPost", u, None),
      ThreadView("threadViewPost", u, Some(<<ReplyOfSelf>>)) }


(***************************************************************************)
(* State.                                                                  *)
(***************************************************************************)
Invocations == {1, 2}

VARIABLES
    \* the remote service (BskyAgent's upstream), fixed by Init
    feed,          \* the account's notifications, newest first
    threads,       \* post URI -> output.thread of getPostThread
    threadFails,   \* the post URIs whose getPostThread request fails
    listFails,     \* whether listNotifications fails
    sessionDid,    \* agent.did(): Some(did) or None
    \* one get_unreplied_mentions invocation per element of Invocations
    pc,            \* "idle", "list", "did", "collect", "done"
    max_num,       \* the argument
    notifications, \* let notifications
    handles,       \* let mut handles: one spawned task per notification
    did,           \* let did
    replied,       \* let mut replied
    next,          \* position of `for handle in handles`
    result,        \* what the invocation returned
    apiLog,        \* the bag of requests the invocation and its tasks have issued
    \* one call of another tool
    tool,          \* the tool called, "" before the call
    params,        \* its parameters
    tpc,           \* "idle", "facets", "api", "get_record", "create_record", "done",
                   \* "panicked"
    rt,            \* create_post: let rt
    fetched,       \* create_post: what get_post returned, None before
    toolLog,       \* the requests the call has issued, in order
    toolResult     \* what the call returned

upstreamVars == <<feed, threads, threadFails, listFails, sessionDid>>
invocationVars ==
    <<pc, max_num, notifications, handles, did, replied, next, result, apiLog>>
toolVars == <<tool, params, tpc, rt, fetched, toolLog, toolResult>>
vars == <<upstreamVars, invocationVars, toolVars>>

NoResult == [kind |-> "none", message |-> "", data |-> <<>>, content |-> <<>>]
\* Err(Error::internal_error(message, ..))
Err(message) == [kind |-> "error", message |-> message, data |-> <<>>, content |-> <<>>]
\* Err(Error::internal_error(message, Some(Value::String(e.to_string()))))
ErrData(message, e) ==
    [kind |-> "error", message |-> message, data |-> <<e>>, content |-> <<>>]
\* Ok(CallToolResult::success(vec![Content::json(content)]))
Success(content) ==
    [kind |-> "success", message |-> "", data |-> <<>>, content |-> content]

(***************************************************************************)
(* The remote service's answers.                                           *)
(***************************************************************************)
\* listNotifications: the first `limit` notifications with one of the reasons.
UpstreamListNotifications(req) ==
    LET wanted == SelectSeq(feed, LAMBDA n : n.reason \in Range(req.reasons[1]))
    IN  SubSeq(wanted, 1, Min(req.limit[1], Len(wanted)))

\* The error getPostThread answers for a post: each post has its own.
UpstreamError(u) == <<"getPostThread", u>>

\* getPostThread: an error, or the thread of the post.
UpstreamGetPostThread(u) ==
    IF u \in threadFails
    THEN [ok |-> FALSE, thread |-> ThreadView("none", u, None), error |-> UpstreamError(u)]
    ELSE [ok |-> TRUE, thread |-> threads[u], error |-> <<>>]

(***************************************************************************)
(* service.rs: _list_notifications                                         *)
(***************************************************************************)
ListNotificationsParams(limit, reasons) == [limit |-> limit, reasons |-> reasons]

\* params.limit.unwrap_or(DEFAULT_LIMIT).try_into()
ListLimitClamped(p) ==
    LET v == unwrap_or(p.limit, DEFAULT_LIMIT)
    IN  [ok |-> TRUE, value |-> IF v < 1 THEN 1 ELSE Min(v, LIMIT_MAX)]
ListLimit(p) == LimitedNonZeroU8_try_from(unwrap_or(p.limit, DEFAULT_LIMIT))

\* bsky::notification::list_notifications::ParametersData
ListNotificationsRequest(p) ==
    [nsid |-> "app.bsky.notification.listNotifications",
     cursor |-> None,
     limit |-> Some(ListLimit(p).value),
     priority |-> None,
     reasons |-> Some(ReasonsToStrings(p.reasons)),
     seen_at |-> None]

(***************************************************************************)
(* service.rs: get_unreplied_mentions                                      *)
(***************************************************************************)
\* ListNotificationsParams { limit: max_num, reasons: vec![Mention, Reply] }
UnrepliedParamsMentionOnly(m) == ListNotificationsParams(m, <<"Mention">>)
UnrepliedParams(m) == ListNotificationsParams(m, <<"Mention", "Reply">>)

\* bsky::feed::get_post_thread::ParametersData of a spawned task
TaskDepth ==
    IF LimitedU16_try_from(1).ok THEN Some(LimitedU16_try_from(1).value) ELSE None
TaskRequestDefaults(u) ==
    [nsid |-> "app.bsky.feed.getPostThread",
     depth |-> None,
     parent_height |-> None,
     uri |-> u]
TaskRequest(u) ==
    [nsid |-> "app.bsky.feed.getPostThread",
     depth |-> TaskDepth,
     parent_height |-> Some(LimitedU16_MIN),
     uri |-> u]

\* handles.push(tokio::spawn(..)) for every notification
SpawnAllLazy(ns) ==
    [k \in 1..Len(ns) |->
        [state |-> "lazy", uri |-> ns[k].uri,
         output |-> [ok |-> FALSE, thread |-> ThreadView("none", ns[k].uri, None),
                     error |-> <<>>]]]
SpawnAll(ns) ==
    [k \in 1..Len(ns) |->
        [state |-> "spawned", uri |-> ns[k].uri,
         output |-> [ok |-> FALSE, thread |-> ThreadView("none", ns[k].uri, None),
                     error |-> <<>>]]]

\* The closure of replies.iter().any(..): a thread view post written by the user.
IsReplyFromOrNested(reply, d) ==
    /\ reply.kind = "threadViewPost"
    /\ \/ reply.post.author = d
       \/ /\ reply.replies # None
          /\ \E k \in 1..Len(reply.replies[1]) : reply.replies[1][k].post.author = d
IsReplyFrom(reply, d) ==
    IF reply.kind = "threadViewPost" THEN reply.post.author = d ELSE FALSE

\* Whether the thread contains a reply from the user.
ContainsReplyFrom(thread, d) ==
    /\ thread.kind = "threadViewPost"
    /\ thread.replies # None
    /\ \E k \in 1..Len(thread.replies[1]) : IsReplyFrom(thread.replies[1][k], d)

\* replied after the loop body has seen `output`
RepliedAfter(rep, thread, d) ==
    IF ContainsReplyFrom(thread, d) THEN rep \cup {thread.post.uri} ELSE rep

\* notifications.iter().filter(|n| !replied.contains(&n.uri)).collect()
Unreplied(ns, rep) == SelectSeq(ns, LAMBDA n : n.uri \notin rep)

\* The Ok(..) at the end of the handler.
UnrepliedResultOrNothing(ns, rep) ==
    IF Unreplied(ns, rep) = <<>> THEN Err("no unreplied mentions")
    ELSE Success(convert_datetime(Unreplied(ns, rep)))
UnrepliedResult(ns, rep) == Success(convert_datetime(Unreplied(ns, rep)))

\* let mut replied = HashSet::new()
NewRepliedShared(i) == [j \in Invocations |-> {}]
NewReplied(i) == [replied EXCEPT ![i] = {}]

\* self.agent.did().await
AgentDidOrDefault == IF sessionDid = None THEN Some("") ELSE sessionDid
AgentDid == sessionDid

\* handle.await.map_err(..)?.map_err(..)?: the error the loop returns, if any.
AwaitErrorIgnored(h) == None
AwaitError(h) ==
    IF ~h.output.ok THEN Some(ErrData("failed to get post thread", h.output.error))
    ELSE None

\* `for handle in handles`: the handle the loop is at, in the order of the spawns.
AwaitingAnyFailed(i) ==
    LET failed == {k \in DOMAIN handles[i] :
                      handles[i][k].state = "done" /\ ~handles[i][k].output.ok}
    IN  IF failed = {} THEN handles[i][next[i]]
        ELSE handles[i][CHOOSE k \in failed : \A j \in failed : j <= k]
Awaiting(i) == handles[i][next[i]]

\* handle.await is ready once the task has finished.
AwaitedAnyway(h) == TRUE
Awaited(h) == h.state = "done"

Return(i, r) ==
    /\ result' = [result EXCEPT ![i] = r]
    /\ pc' = [pc EXCEPT ![i] = "done"]

\* The handler up to the .await of the list request.
Call(i, m) ==
    /\ pc[i] = "idle"
    /\ max_num' = [max_num EXCEPT ![i] = m]
    /\ IF ListLimit(UnrepliedParams(m)).ok
       THEN /\ apiLog' = [apiLog EXCEPT
                  ![i] = @ (+) SetToBag({ListNotificationsRequest(UnrepliedParams(m))})]
            /\ pc' = [pc EXCEPT ![i] = "list"]
            /\ UNCHANGED result
       ELSE /\ Return(i, Err("failed to parse limit"))
            /\ UNCHANGED apiLog
    /\ UNCHANGED <<upstreamVars, toolVars, notifications, handles, did, replied, next>>

\* The list request answers; on success every task is spawned.
ListResponse(i) ==
    /\ pc[i] = "list"
    /\ IF listFails
       THEN /\ Return(i, Err("failed to list notifications"))
            /\ UNCHANGED <<notifications, handles>>
       ELSE LET ns == UpstreamListNotifications(
                          ListNotificationsRequest(UnrepliedParams(max_num[i])))
            IN  /\ notifications' = [notifications EXCEPT ![i] = ns]
                /\ handles' = [handles EXCEPT ![i] = SpawnAll(ns)]
                /\ pc' = [pc EXCEPT ![i] = "did"]
                /\ UNCHANGED result
    /\ UNCHANGED <<upstreamVars, toolVars, max_num, did, replied, next, apiLog>>

\* A spawned task issues its request.
TaskStart(i, k) ==
    /\ k \in DOMAIN handles[i]
    /\ handles[i][k].state = "spawned"
    /\ handles' = [handles EXCEPT ![i][k].state = "running"]
    /\ apiLog' = [apiLog EXCEPT ![i] = @ (+) SetToBag({TaskRequest(handles[i][k].uri)})]
    /\ UNCHANGED <<upstreamVars, toolVars, pc, max_num, notifications, did, replied, next, result>>

\* A task's request answers and the task finishes with the output.
TaskFinish(i, k) ==
    /\ k \in DOMAIN handles[i]
    /\ handles[i][k].state = "running"
    /\ handles' = [handles EXCEPT
          ![i][k].state = "done",
          ![i][k].output = UpstreamGetPostThread(handles[i][k].uri)]
    /\ UNCHANGED <<upstreamVars, toolVars, pc, max_num, notifications, did, replied, next,
                   result, apiLog>>

\* self.agent.did().await.ok_or(..)?, then the loop's setup.
ResolveDid(i) ==
    /\ pc[i] = "did"
    /\ IF AgentDid = None
       THEN /\ Return(i, Err("failed to get did"))
            /\ UNCHANGED <<did, replied, next>>
       ELSE /\ did' = [did EXCEPT ![i] = AgentDid[1]]
            /\ replied' = NewReplied(i)
            /\ next' = [next EXCEPT ![i] = 1]
            /\ IF Len(handles[i]) = 0
               THEN Return(i, UnrepliedResult(notifications[i], {}))
               ELSE /\ pc' = [pc EXCEPT ![i] = "collect"]
                    /\ UNCHANGED result
    /\ UNCHANGED <<upstreamVars, toolVars, max_num, notifications, handles, apiLog>>

\* One turn of `for handle in handles`: handle.await, then the check of its thread;
\* after the last handle, the filtered notifications are returned.
Collect(i) ==
    /\ pc[i] = "collect"
    /\ Awaited(Awaiting(i))
    /\ LET output == Awaiting(i).output
           rep == RepliedAfter(replied[i], output.thread, did[i])
       IN  IF AwaitError(Awaiting(i)) # None
           THEN /\ Return(i, AwaitError(Awaiting(i))[1])
                /\ UNCHANGED <<replied, next>>
           ELSE /\ replied' = [replied EXCEPT ![i] = rep]
                /\ next' = [next EXCEPT ![i] = @ + 1]
                /\ IF next[i] = Len(handles[i])
                   THEN Return(i, UnrepliedResult(notifications[i], rep))
                   ELSE UNCHANGED <<pc, result>>
    /\ UNCHANGED <<upstreamVars, toolVars, max_num, notifications, handles, did, apiLog>>

(***************************************************************************)
(* Strings that are parsed: a string is the sequence of its pieces, the    *)
(* separator "/" among them, so that stripping a prefix and splitting work *)
(* on it as on the text. "at://" only ever stands first.                   *)
(***************************************************************************)
\* The longest reply string, in pieces, after its "at://".
MaxUriLen == 5

Segments == {"did:plc:a", "app.bsky.feed.post", "3k", "?"}
\* Strings of at most n pieces in which no two segments are adjacent.
RECURSIVE Bodies(_)
Bodies(n) ==
    IF n = 0 THEN {<<>>}
    ELSE LET shorter == Bodies(n - 1)
             longest == {t \in shorter : Len(t) = n - 1}
         IN  shorter
             \cup {Append(t, "/") : t \in longest}
             \cup {Append(t, x) : t \in {b \in longest : b = <<>> \/ b[Len(b)] = "/"},
                                  x \in Segments}
ReplyStrings == Bodies(MaxUriLen) \cup {<<"at://">> \o b : b \in Bodies(MaxUriLen)}

\* str::strip_prefix
strip_prefix(s, prefix) ==
    IF Len(s) > 0 /\ s[1] = prefix THEN Some(Tail(s)) ELSE None

\* str::splitn(n, '/').collect::<Vec<_>>()
FirstSlash(s) ==
    IF \E k \in 1..Len(s) : s[k] = "/"
    THEN Some(CHOOSE k \in 1..Len(s) : s[k] = "/" /\ \A j \in 1..(k - 1) : s[j] # "/")
    ELSE None
RECURSIVE splitn(_, _)
splitn(s, n) ==
    IF n = 1 \/ FirstSlash(s) = None THEN <<s>>
    ELSE LET k == FirstSlash(s)[1]
         IN  <<SubSeq(s, 1, k - 1)>> \o splitn(SubSeq(s, k + 1, Len(s)), n - 1)

\* str::parse::<AtIdentifier>(), ::<Nsid>(), ::<RecordKey>(): whether Ok.
IsAtIdentifier(part) ==
    part \in {<<"did:plc:a">>, <<"app.bsky.feed.post">>, <<"alice.test">>}
IsNsid(part) == part = <<"app.bsky.feed.post">>
IsRecordKey(part) == part \in {<<"did:plc:a">>, <<"app.bsky.feed.post">>, <<"3k">>}

(***************************************************************************)
(* utils.rs: get_post, up to its request                                   *)
(***************************************************************************)
GetPostErr(message) == [outcome |-> "err", message |-> message, request |-> <<>>]
GetPostPanic == [outcome |-> "panic", message |-> "index out of bounds", request |-> <<>>]
\* atproto::repo::get_record::ParametersData
GetRecordRequest(parts) ==
    [nsid |-> "com.atproto.repo.getRecord",
     cid |-> None,
     collection |-> parts[2],
     repo |-> parts[1],
     rkey |-> parts[3]]

\* parts[1] and parts[2] of the source are indexed without a check of the length.
get_post(at_uri) ==
    IF strip_prefix(at_uri, "at://") = None THEN GetPostErr("invalid AT URI")
    ELSE LET parts == splitn(strip_prefix(at_uri, "at://")[1], 3)
         IN  IF ~IsAtIdentifier(parts[1]) THEN GetPostErr("invalid repo")
             ELSE IF Len(parts) < 2 THEN GetPostPanic
             ELSE IF ~IsNsid(parts[2]) THEN GetPostErr("invalid collection")
             ELSE IF Len(parts) < 3 THEN GetPostPanic
             ELSE IF ~IsRecordKey(parts[3]) THEN GetPostErr("invalid record key")
             ELSE [outcome |-> "ok", message |-> "", request |-> GetRecordRequest(parts)]

(***************************************************************************)
(* The records of the remote service: what getRecord may answer.           *)
(***************************************************************************)
StrongRef(cid, uri) == [cid |-> cid, uri |-> uri]
RootRef ==
    StrongRef("cid:root", <<"at://", "did:plc:a", "/", "app.bsky.feed.post", "/", "root">>)
ParentRef ==
    StrongRef("cid:parent", <<"at://", "did:plc:a", "/", "app.bsky.feed.post", "/", "parent">>)
\* output.data.value: whether it decodes as a post record, and the record's reply.
RecordValues ==
    { [decodes |-> FALSE, reply |-> None],
      [decodes |-> TRUE, reply |-> None],
      [decodes |-> TRUE, reply |-> Some([parent |-> ParentRef, root |-> RootRef])] }
\* get_record::Output of the record the request names.
RecordOutputs(req) ==
    { [ok |-> TRUE, cid |-> c, value |-> v,
       uri |-> <<"at://">> \o req.repo \o <<"/">> \o req.collection \o <<"/">> \o req.rkey]
        : c \in {None, Some("cid:target")}, v \in RecordValues }
GetRecordFailed == [ok |-> FALSE, cid |-> None, value |-> [decodes |-> FALSE, reply |-> None],
                    uri |-> <<>>]

\* What the other read requests answer: views with a timestamp.
UpstreamViews(req) == <<Notification(Uri1, req.nsid)>>

(***************************************************************************)
(* service.rs: get_author_feed, get_post_thread, search_posts,             *)
(* list_notifications                                                      *)
(***************************************************************************)
Rejected(message) == [error |-> Some(message), request |-> <<>>]
Accepted(request) == [error |-> None, request |-> request]

\* params.limit.unwrap_or(DEFAULT_LIMIT).try_into()
FeedLimit(p) == LimitedNonZeroU8_try_from(unwrap_or(p.limit, DEFAULT_LIMIT))
\* params.depth.unwrap_or(DEFAULT_DEPTH).try_into()
ThreadDepthSwapped(p) == LimitedU16_try_from(unwrap_or(p.depth, DEFAULT_PARENT_HEIGHT))
ThreadDepth(p) == LimitedU16_try_from(unwrap_or(p.depth, DEFAULT_DEPTH))
\* params.parent_height.unwrap_or(DEFAULT_PARENT_HEIGHT).try_into()
ThreadParentHeight(p) ==
    LimitedU16_try_from(unwrap_or(p.parent_height, DEFAULT_PARENT_HEIGHT))

get_author_feed_checked(p) ==
    IF ~IsAtIdentifier(p.actor) THEN Rejected("failed to parse actor")
    ELSE IF ~FeedLimit(p).ok THEN Rejected("failed to parse limit")
    ELSE Accepted([nsid |-> "app.bsky.feed.getAuthorFeed",
                   actor |-> p.actor,
                   cursor |-> None,
                   filter |-> IF unwrap_or(p.with_replies, FALSE) THEN None
                              ELSE Some("posts_no_replies"),
                   include_pins |-> None,
                   limit |-> Some(FeedLimit(p).value)])

get_post_thread_checked(p) ==
    IF ~ThreadDepth(p).ok THEN Rejected("failed to parse depth")
    ELSE IF ~ThreadParentHeight(p).ok THEN Rejected("failed to parse parent height")
    ELSE Accepted([nsid |-> "app.bsky.feed.getPostThread",
                   depth |-> Some(ThreadDepth(p).value),
                   parent_height |-> Some(ThreadParentHeight(p).value),
                   uri |-> p.uri])

search_posts_checked(p) ==
    IF ~FeedLimit(p).ok THEN Rejected("failed to parse limit")
    ELSE Accepted([nsid |-> "app.bsky.feed.searchPosts",
                   limit |-> Some(FeedLimit(p).value),
                   q |-> p.q])

list_notifications_checked(p) ==
    IF ~ListLimit(p).ok THEN Rejected("failed to parse limit")
    ELSE Accepted(ListNotificationsRequest(p))

\* The handler up to the .await of its request.
StartTool(name, p, checked) ==
    /\ tpc = "idle"
    /\ pc[1] = "idle"
    /\ tool' = name
    /\ params' = p
    /\ IF checked.error # None
       THEN /\ toolResult' = Err(checked.error[1])
            /\ tpc' = "done"
            /\ UNCHANGED toolLog
       ELSE /\ toolLog' = Append(toolLog, checked.request)
            /\ tpc' = "api"
            /\ UNCHANGED toolResult
    /\ UNCHANGED <<upstreamVars, invocationVars, rt, fetched>>

get_author_feed(p) == StartTool("get_author_feed", p, get_author_feed_checked(p))
get_post_thread(p) == StartTool("get_post_thread", p, get_post_thread_checked(p))
search_posts(p) == StartTool("search_posts", p, search_posts_checked(p))
list_notifications(p) == StartTool("list_notifications", p, list_notifications_checked(p))

\* The message of the handler's map_err on its request.
RequestError(name) ==
    CASE name = "get_author_feed" -> "failed to get author feed"
      [] name = "get_post_thread" -> "failed to get post thread"
      [] name = "search_posts" -> "failed to search posts"
      [] name = "list_notifications" -> "failed to list notifications"

\* The request answers and the handler returns.
ToolResponse(failed) ==
    /\ tpc = "api"
    /\ tool = "list_notifications" => failed = listFails
    /\ toolResult' =
          IF failed THEN Err(RequestError(tool))
          ELSE IF tool = "list_notifications"
               THEN Success(convert_datetime(UpstreamListNotifications(toolLog[1])))
               ELSE Success(convert_datetime(UpstreamViews(toolLog[1])))
    /\ tpc' = "done"
    /\ UNCHANGED <<upstreamVars, invocationVars, tool, params, rt, fetched, toolLog>>

(***************************************************************************)
(* service.rs: create_post                                                 *)
(***************************************************************************)
\* RichText::new_with_detect_facets(text): the text and the facets found in it.
RichText(text) ==
    [text |-> text,
     facets |-> IF text = "hi @alice.test" THEN Some(<<"mention:alice.test">>) ELSE None]

\* let root = if let Some(reply) = &record.reply { reply.root.clone() } else { .. }
ReplyRootOfParent(record, strong_ref) ==
    IF record.reply # None THEN record.reply[1].parent ELSE strong_ref
ReplyRoot(record, strong_ref) ==
    IF record.reply # None THEN record.reply[1].root ELSE strong_ref

\* bsky::feed::post::ReplyRefData of the fetched target
ReplyRef(output) ==
    [parent |-> StrongRef(output.cid[1], output.uri),
     root |-> ReplyRoot(output.value, StrongRef(output.cid[1], output.uri))]

\* self.agent.create_record(bsky::feed::post::RecordData { .. })
CreateRecordRequest(richText, reply) ==
    [nsid |-> "com.atproto.repo.createRecord",
     collection |-> "app.bsky.feed.post",
     record |-> [created_at |-> "now", embed |-> None, entities |-> None,
                 facets |-> richText.facets, labels |-> None, langs |-> None,
                 reply |-> reply, tags |-> None, text |-> richText.text]]

\* The handler up to the .await of the facet detection.
create_post(p) ==
    /\ tpc = "idle"
    /\ pc[1] = "idle"
    /\ tool' = "create_post"
    /\ params' = p
    /\ tpc' = "facets"
    /\ UNCHANGED <<upstreamVars, invocationVars, rt, fetched, toolLog, toolResult>>

\* Facet detection ends; with a reply target, get_post runs up to its request.
FacetsDetected(failed) ==
    /\ tpc = "facets"
    /\ IF failed
       THEN /\ toolResult' = Err("failed to create rich text")
            /\ tpc' = "done"
            /\ UNCHANGED <<rt, toolLog>>
       ELSE /\ rt' = RichText(params.text)
            /\ IF params.reply = None
               THEN /\ toolLog' = Append(toolLog, CreateRecordRequest(RichText(params.text), None))
                    /\ tpc' = "create_record"
                    /\ UNCHANGED toolResult
               ELSE LET got == get_post(params.reply[1])
                    IN  CASE got.outcome = "panic" ->
                               /\ tpc' = "panicked"
                               /\ UNCHANGED <<toolLog, toolResult>>
                          [] got.outcome = "err" ->
                               /\ toolResult' = Err("failed to get post")
                               /\ tpc' = "done"
                               /\ UNCHANGED toolLog
                          [] got.outcome = "ok" ->
                               /\ toolLog' = Append(toolLog, got.request)
                               /\ tpc' = "get_record"
                               /\ UNCHANGED toolResult
    /\ UNCHANGED <<upstreamVars, invocationVars, tool, params, fetched>>

\* get_record answers; the reply reference is built and the record is sent.
GetRecordResponse(output) ==
    /\ tpc = "get_record"
    /\ fetched' = Some(output)
    /\ IF ~output.ok
       THEN /\ toolResult' = Err("failed to get post")
            /\ tpc' = "done"
            /\ UNCHANGED toolLog
       ELSE IF output.cid = None
       THEN /\ toolResult' = Err("failed to get cid")
            /\ tpc' = "done"
            /\ UNCHANGED toolLog
       ELSE IF ~output.value.decodes
       THEN /\ toolResult' = Err("failed to convert record")
            /\ tpc' = "done"
            /\ UNCHANGED toolLog
       ELSE /\ toolLog' = Append(toolLog, CreateRecordRequest(rt, Some(ReplyRef(output))))
            /\ tpc' = "create_record"
            /\ UNCHANGED toolResult
    /\ UNCHANGED <<upstreamVars, invocationVars, tool, params, rt>>

GetRecordAnswers ==
    /\ tpc = "get_record"
    /\ \E output \in RecordOutputs(toolLog[1]) \cup {GetRecordFailed} :
          GetRecordResponse(output)

\* create_record answers and the handler returns.
CreateRecordResponse(failed) ==
    /\ tpc = "create_record"
    /\ toolResult' =
          IF failed THEN Err("failed to create record")
          ELSE Success([cid |-> "cid:new", uri |-> "at://did:plc:self/app.bsky.feed.post/new"])
    /\ tpc' = "done"
    /\ UNCHANGED <<upstreamVars, invocationVars, tool, params, rt, fetched, toolLog>>

(***************************************************************************)
(* Specifications.                                                         *)
(***************************************************************************)
\* The values of max_num: Option<u8> the invocations are called with.
MaxNums == {None, Some(0), Some(1), Some(101)}

\* What no invocation can observe is left at a default: the feed when the list
\* request fails, the thread of a post no notification refers to.
UpstreamNormal ==
    /\ listFails => feed = <<>>
    /\ \A u \in NotifUris \ {feed[k].uri : k \in 1..Len(feed)} :
          /\ threads[u] = ThreadView("threadViewPost", u, None)
          /\ u \notin threadFails

\* few: only FewThreadViews are drawn for the threads.
InitUpstream(few) ==
    /\ feed \in SeqsUpTo(FeedNotifications, MaxNotifs)
    /\ threads \in [NotifUris ->
          UNION {IF few THEN FewThreadViews(u) ELSE ThreadViews(u) : u \in NotifUris}]
    /\ \A u \in NotifUris :
          threads[u] \in (IF few THEN FewThreadViews(u) ELSE ThreadViews(u))
    /\ threadFails \in SUBSET NotifUris
    /\ listFails \in BOOLEAN
    /\ sessionDid \in {None, Some(SelfDid)}

InitInvocations ==
    /\ pc = [i \in Invocations |-> "idle"]
    /\ max_num = [i \in Invocations |-> None]
    /\ notifications = [i \in Invocations |-> <<>>]
    /\ handles = [i \in Invocations |-> <<>>]
    /\ did = [i \in Invocations |-> ""]
    /\ replied = [i \in Invocations |-> {}]
    /\ next = [i \in Invocations |-> 1]
    /\ result = [i \in Invocations |-> NoResult]
    /\ apiLog = [i \in Invocations |-> EmptyBag]

Step(i) ==
    \/ \E m \in MaxNums : Call(i, m)
    \/ ListResponse(i)
    \/ \E k \in 1..MaxNotifs : TaskStart(i, k)
    \/ \E k \in 1..MaxNotifs : TaskFinish(i, k)
    \/ ResolveDid(i)
    \/ Collect(i)

InitTool ==
    /\ tool = ""
    /\ params = <<>>
    /\ tpc = "idle"
    /\ rt = <<>>
    /\ fetched = None
    /\ toolLog = <<>>
    /\ toolResult = NoResult

\* One invocation, against every upstream state.
Init ==
    /\ InitUpstream(FALSE)
    /\ UpstreamNormal
    /\ InitInvocations
    /\ InitTool
Next == Step(1)
Spec == Init /\ [][Next]_vars

\* Two invocations that may overlap, against fewer upstream states.
InitConcurrent ==
    /\ InitUpstream(TRUE)
    /\ UpstreamNormal
    /\ InitInvocations
    /\ InitTool
NextConcurrent == \E i \in Invocations : Step(i)
SpecConcurrent == InitConcurrent /\ [][NextConcurrent]_vars

\* One invocation whose spawned tasks the runtime keeps polling and whose requests
\* the service keeps answering: tokio::spawn detaches the task, which runs whether
\* or not its JoinHandle is awaited or dropped. Nothing obliges the handler itself.
FairTasks ==
    \A k \in 1..MaxNotifs : WF_vars(TaskStart(1, k)) /\ WF_vars(TaskFinish(1, k))
SpecFair == InitConcurrent /\ [][Next]_vars /\ FairTasks


(***************************************************************************)
(* One call of any tool, against one upstream state.                       *)
(***************************************************************************)
U8 == 0..255
LimitInputs == {None} \cup {Some(v) : v \in U8}
\* Values of a u16 parameter around its bound.
DepthInputs == {None} \cup {Some(v) : v \in {0, 1, 10, 1000, 1001, 65535}}
Actors == {<<"did:plc:a">>, <<"alice.test">>, <<"?">>}

GetAuthorFeedParams ==
    [actor : Actors, with_replies : {None, Some(TRUE), Some(FALSE)}, limit : LimitInputs]
GetPostThreadParams == [uri : {Uri1}, depth : DepthInputs, parent_height : DepthInputs]
SearchPostsParams == [q : {"rust"}, limit : LimitInputs]
ListNotificationsParamsSet ==
    [limit : LimitInputs,
     reasons : {<<>>, <<"Mention", "Reply">>, <<"StarterpackJoined">>}]
CreatePostParams ==
    [text : {"hello", "hi @alice.test"},
     reply : {None} \cup {Some(s) : s \in ReplyStrings}]

InitTools ==
    /\ feed = <<Notification(Uri1, FeedReason(Uri1)), Notification(Uri2, FeedReason(Uri2))>>
    /\ threads = [u \in NotifUris |->
                    IF u = Uri1 THEN ThreadView("threadViewPost", u, Some(<<ReplyOfSelf>>))
                    ELSE ThreadView("threadViewPost", u, None)]
    /\ threadFails = {}
    /\ listFails \in BOOLEAN
    /\ sessionDid \in {None, Some(SelfDid)}
    /\ InitInvocations
    /\ InitTool

\* No tool has been called yet.
NoCall == tpc = "idle" /\ pc[1] = "idle"

NextTools ==
    \/ NoCall /\ \E p \in GetAuthorFeedParams : get_author_feed(p)
    \/ NoCall /\ \E p \in GetPostThreadParams : get_post_thread(p)
    \/ NoCall /\ \E p \in SearchPostsParams : search_posts(p)
    \/ NoCall /\ \E p \in ListNotificationsParamsSet : list_notifications(p)
    \/ \E failed \in BOOLEAN : ToolResponse(failed)
    \/ NoCall /\ \E p \in CreatePostParams : create_post(p)
    \/ \E failed \in BOOLEAN : FacetsDetected(failed)
    \/ GetRecordAnswers
    \/ \E failed \in BOOLEAN : CreateRecordResponse(failed)
    \/ NoCall /\ \E m \in LimitInputs : Call(1, m)
    \/ ListResponse(1)
    \/ \E k \in 1..MaxNotifs : TaskStart(1, k)
    \/ \E k \in 1..MaxNotifs : TaskFinish(1, k)
    \/ ResolveDid(1)
    \/ Collect(1)
SpecTools == InitTools /\ [][NextTools]_vars

(***************************************************************************)
(* What the claims speak of.                                               *)
(***************************************************************************)
ListNsid == "app.bsky.notification.listNotifications"
ThreadNsid == "app.bsky.feed.getPostThread"

\* The requests of one kind an invocation has issued so far, and their number.
RequestsOf(i, nsid) == {r \in BagToSet(apiLog[i]) : r.nsid = nsid}
RECURSIVE SumCopies(_, _)
SumCopies(S, B) ==
    IF S = {} THEN 0
    ELSE LET r == CHOOSE x \in S : TRUE IN CopiesIn(r, B) + SumCopies(S \ {r}, B)
CountOf(i, nsid) == SumCopies(RequestsOf(i, nsid), apiLog[i])

\* The list call of invocation i has returned its notifications.
ListReturned(i) == pc[i] \in {"did", "collect", "done"} /\ CountOf(i, ListNsid) = 1 /\ ~listFails
\* The sequence N the list call returned: the service's answer to the request made.
Listed(i) == UpstreamListNotifications(CHOOSE r \in RequestsOf(i, ListNsid) : TRUE)

\* The direct replies of a thread view; none when it is no normal thread view.
DirectReplies(t) ==
    IF t.kind = "threadViewPost" /\ t.replies # None THEN t.replies[1] ELSE <<>>
\* A reply authored by d sits directly under the thread's post.
RepliedDirectlyBy(t, d) ==
    \E k \in 1..Len(DirectReplies(t)) :
        /\ DirectReplies(t)[k].kind = "threadViewPost"
        /\ DirectReplies(t)[k].post.author = d
\* A reply authored by d sits under a direct reply.
RepliedDeeperBy(t, d) ==
    \E k \in 1..Len(DirectReplies(t)) :
        /\ DirectReplies(t)[k].replies # None
        /\ \E j \in 1..Len(DirectReplies(t)[k].replies[1]) :
              DirectReplies(t)[k].replies[1][j].post.author = d
\* A notification as the caller tells it from another: timestamps by their instant.
Ident(n) == <<n.uri, n.reason, n.indexedAt.instant>>
Idents(ns) == [k \in 1..Len(ns) |-> Ident(ns[k])]
\* Some thread fetch of the notifications the list call returned fails.
SomeFetchFails(i) == \E k \in 1..Len(Listed(i)) : Listed(i)[k].uri \in threadFails
\* r is the error with this message, whatever data it carries.
IsError(r, message) == r.kind = "error" /\ r.message = message

(***************************************************************************)
(* C1. A successful get_unreplied_mentions returns exactly the             *)
(* notifications n of the listed sequence N whose thread T[n.uri] has no   *)
(* direct reply authored by the session identity, in N's order (timestamps *)
(* re-rendered in the local zone, the instant kept).                       *)
(***************************************************************************)
C1_UnrepliedExactly ==
    \A i \in Invocations :
        (pc[i] = "done" /\ result[i].kind = "success") =>
            Idents(result[i].content) =
                Idents(SelectSeq(Listed(i),
                    LAMBDA n : ~RepliedDirectlyBy(threads[n.uri], sessionDid[1])))

\* Two notifications listed: one dropped, the other kept although the user has
\* replied deeper in its thread.
C1_Witness ==
    /\ pc[1] = "done" /\ result[1].kind = "success"
    /\ Len(Listed(1)) = 2 /\ Len(result[1].content) = 1
    /\ RepliedDeeperBy(threads[result[1].content[1].uri], SelfDid)
    /\ result[1].content[1].uri = Listed(1)[2].uri

(***************************************************************************)
(* C2 as stated. If the thread fetch of one of the N notifications fails,  *)
(* the invocation returns the upstream error.                              *)
(***************************************************************************)
C2_UpstreamErrorAlways ==
    \A i \in Invocations :
        (pc[i] = "done" /\ \E k \in DOMAIN handles[i] :
                              handles[i][k].state = "done" /\ ~handles[i][k].output.ok) =>
            IsError(result[i], "failed to get post thread")

(***************************************************************************)
(* C2 amended. If the thread fetch of one of the N notifications fails,    *)
(* the invocation returns an error and never a success payload: the        *)
(* upstream error when a session identity is available, the error of the   *)
(* missing identity when none is.                                          *)
(***************************************************************************)
C2_NoPartialList ==
    \A i \in Invocations :
        (pc[i] = "done" /\ ListReturned(i) /\ SomeFetchFails(i)) =>
            IF sessionDid = None THEN result[i] = Err("failed to get did")
            ELSE IsError(result[i], "failed to get post thread")

\* Two notifications, the first fetched, the second failing; the first task has
\* finished with its thread.
C2_Witness ==
    /\ pc[1] = "done" /\ Len(handles[1]) = 2
    /\ handles[1][1].state = "done" /\ handles[1][1].output.ok
    /\ handles[1][2].state = "done" /\ ~handles[1][2].output.ok
    /\ IsError(result[1], "failed to get post thread")

(***************************************************************************)
(* C3 as stated. When the list call returns an empty list, the invocation  *)
(* returns an empty sequence and issues no thread fetch.                   *)
(***************************************************************************)
C3_EmptyListEmptyOutput ==
    \A i \in Invocations :
        (pc[i] = "done" /\ ListReturned(i) /\ Listed(i) = <<>>) =>
            /\ result[i] = Success(<<>>)
            /\ CountOf(i, ThreadNsid) = 0

(***************************************************************************)
(* C3 amended. When the list call returns an empty list, the invocation    *)
(* issues no thread fetch, and returns an empty sequence if a session      *)
(* identity is available (the error of the missing identity otherwise).    *)
(***************************************************************************)
C3_EmptyListNoFetch ==
    \A i \in Invocations :
        (ListReturned(i) /\ Listed(i) = <<>>) =>
            /\ CountOf(i, ThreadNsid) = 0
            /\ handles[i] = <<>>
            /\ pc[i] = "done" =>
                  result[i] = IF sessionDid = None THEN Err("failed to get did")
                              ELSE Success(<<>>)

C3_Witness ==
    /\ pc[1] = "done" /\ ListReturned(1) /\ Listed(1) = <<>>
    /\ result[1] = Success(<<>>)


(***************************************************************************)
(* C4 as stated. Without a session identity the invocation fails with the  *)
(* error of the missing identity, and an invocation that fails so has      *)
(* issued no thread fetch.                                                 *)
(***************************************************************************)
C4_NoFetchWithoutIdentity ==
    \A i \in Invocations :
        /\ (pc[i] = "done" /\ ListReturned(i) /\ sessionDid = None) =>
              result[i] = Err("failed to get did")
        /\ result[i] = Err("failed to get did") => CountOf(i, ThreadNsid) = 0

(***************************************************************************)
(* C4 amended. Without a session identity an invocation whose list call    *)
(* succeeded fails with the error of the missing identity; the identity is *)
(* resolved after one thread-fetch task per notification has been          *)
(* dispatched and before any task's result is collected.                   *)
(***************************************************************************)
C4_IdentityAfterDispatch ==
    \A i \in Invocations :
        /\ (pc[i] = "done" /\ ListReturned(i) /\ sessionDid = None) =>
              result[i] = Err("failed to get did")
        /\ (pc[i] = "did" \/ result[i] = Err("failed to get did")) =>
              /\ Len(handles[i]) = Len(Listed(i))
              /\ \A k \in 1..Len(handles[i]) : handles[i][k].uri = Listed(i)[k].uri
              /\ next[i] = 1 /\ replied[i] = {}
        /\ result[i] = Err("failed to get did") => sessionDid = None

\* The invocation has failed for lack of identity and both its fetches were issued.
C4_Witness ==
    /\ result[1] = Err("failed to get did")
    /\ Len(handles[1]) = 2
    /\ CountOf(1, ThreadNsid) = 2

(***************************************************************************)
(* C5. An invocation issues one list request once called with a valid      *)
(* max_num and no other; its thread-view requests are one per dispatched   *)
(* task that has started, each for its notification's URI with depth 1 and *)
(* parent height 0: never more than N, and exactly N once every task has   *)
(* run, as on every successful return; it issues no other request.         *)
(***************************************************************************)
ExpectedThreadRequest(u) ==
    [nsid |-> ThreadNsid, depth |-> <<1>>, parent_height |-> <<0>>, uri |-> u]
StartedFor(i, u) ==
    Cardinality({k \in DOMAIN handles[i] : handles[i][k].uri = u /\ handles[i][k].state # "spawned"})
ListedFor(i, u) == Cardinality({k \in 1..Len(Listed(i)) : Listed(i)[k].uri = u})
AllTasksDone(i) == \A k \in DOMAIN handles[i] : handles[i][k].state = "done"

C5_RequestsIssued ==
    \A i \in Invocations :
        /\ \A r \in BagToSet(apiLog[i]) : r.nsid \in {ListNsid, ThreadNsid}
        /\ CountOf(i, ListNsid) <= 1
        /\ (pc[i] # "idle" /\ result[i] # Err("failed to parse limit")) =>
              CountOf(i, ListNsid) = 1
        /\ RequestsOf(i, ThreadNsid) \subseteq {ExpectedThreadRequest(u) : u \in NotifUris}
        /\ \A u \in NotifUris :
              CopiesIn(ExpectedThreadRequest(u), apiLog[i]) = StartedFor(i, u)
        /\ ListReturned(i) =>
              /\ CountOf(i, ThreadNsid) <= Len(Listed(i))
              /\ (AllTasksDone(i) \/ result[i].kind = "success") =>
                    /\ CountOf(i, ThreadNsid) = Len(Listed(i))
                    /\ \A u \in NotifUris :
                          CopiesIn(ExpectedThreadRequest(u), apiLog[i]) = ListedFor(i, u)
        /\ ~ListReturned(i) => CountOf(i, ThreadNsid) = 0

\* Two notifications for the same post: two requests for its thread.
C5_Witness ==
    /\ pc[1] = "done" /\ result[1].kind = "success"
    /\ Len(Listed(1)) = 2
    /\ CopiesIn(ExpectedThreadRequest(Uri1), apiLog[1]) = 2
    /\ CountOf(1, ListNsid) = 1

(***************************************************************************)
(* C10. Two invocations against the same upstream state and with the same  *)
(* argument, one after the other or overlapping, return the same outcome;  *)
(* what an invocation has collected concerns its own notifications only.   *)
(***************************************************************************)
C10_SameOutcome ==
    /\ (pc[1] = "done" /\ pc[2] = "done" /\ max_num[1] = max_num[2]) =>
          result[1] = result[2]
    /\ \A i \in Invocations :
          /\ replied[i] \subseteq {notifications[i][k].uri : k \in 1..Len(notifications[i])}
          /\ Len(handles[i]) = Len(notifications[i])

\* Both have returned a filtered list of the same two notifications.
C10_Witness ==
    /\ pc[1] = "done" /\ pc[2] = "done" /\ max_num[1] = max_num[2]
    /\ result[1].kind = "success" /\ result[2].kind = "success"
    /\ Len(notifications[1]) = 2 /\ Len(result[1].content) = 1
    /\ replied[2] # {}


CreateNsid == "com.atproto.repo.createRecord"
\* The call's tool takes a limit: Option<u8>.
LimitTool == tool \in {"get_author_feed", "search_posts", "list_notifications"}
\* A supplied value outside the declared bound of its parameter.
OutOfBound8(o) == o # None /\ (o[1] = 0 \/ o[1] > 100)
OutOfBound16(o) == o # None /\ o[1] > 1000
\* The call was rejected before any request: an error result, nothing issued.
RejectedUnsent == tpc = "done" /\ toolResult.kind = "error" /\ toolLog = <<>>

(***************************************************************************)
(* C6. create_post with a reply target: the created record's parent is the *)
(* target post (its URI and content hash); its root is the parent when the *)
(* target record has no reply reference and the target record's reply.root *)
(* when it has one. Without a reply target the record has no reply.        *)
(***************************************************************************)
C6_ReplyReferences ==
    tool = "create_post" =>
        \A k \in 1..Len(toolLog) :
            toolLog[k].nsid = CreateNsid =>
                IF params.reply = None THEN toolLog[k].record.reply = None
                ELSE /\ toolLog[k].record.reply # None
                     /\ fetched # None
                     /\ toolLog[k].record.reply[1].parent =
                            [cid |-> fetched[1].cid[1], uri |-> params.reply[1]]
                     /\ toolLog[k].record.reply[1].root =
                            IF fetched[1].value.reply = None
                            THEN toolLog[k].record.reply[1].parent
                            ELSE fetched[1].value.reply[1].root

\* A reply to a post that is itself a reply: the record's root is the thread's
\* root, neither the target nor the target's parent.
C6_Witness ==
    /\ tool = "create_post" /\ tpc = "done" /\ toolResult.kind = "success"
    /\ Len(toolLog) = 2
    /\ toolLog[2].record.reply[1].root = RootRef
    /\ toolLog[2].record.reply[1].parent.cid = "cid:target"

(***************************************************************************)
(* C7. A call whose limit or max_num is 0 or above 100, or whose depth or  *)
(* parent_height is above 1000, returns an error and issues no request;    *)
(* a supplied value within its bound is accepted and forwarded unchanged.  *)
(***************************************************************************)
C7_BoundsChecked ==
    /\ (LimitTool /\ OutOfBound8(params.limit)) => RejectedUnsent
    /\ (LimitTool /\ params.limit # None /\ ~OutOfBound8(params.limit)) =>
          /\ toolResult # Err("failed to parse limit")
          /\ (tool = "get_author_feed" => IsAtIdentifier(params.actor)) =>
                (Len(toolLog) = 1 /\ toolLog[1].limit = params.limit)
    /\ (tool = "get_post_thread"
          /\ (OutOfBound16(params.depth) \/ OutOfBound16(params.parent_height))) =>
          RejectedUnsent
    /\ (tool = "get_post_thread"
          /\ ~OutOfBound16(params.depth) /\ ~OutOfBound16(params.parent_height)) =>
          /\ Len(toolLog) = 1
          /\ params.depth # None => toolLog[1].depth = params.depth
          /\ params.parent_height # None =>
                toolLog[1].parent_height = params.parent_height
    /\ (pc[1] # "idle" /\ OutOfBound8(max_num[1])) =>
          /\ pc[1] = "done" /\ result[1].kind = "error"
          /\ apiLog[1] = EmptyBag /\ handles[1] = <<>>
    /\ (pc[1] # "idle" /\ max_num[1] # None /\ ~OutOfBound8(max_num[1])) =>
          /\ CountOf(1, ListNsid) = 1
          /\ \A r \in RequestsOf(1, ListNsid) : r.limit = max_num[1]

\* A limit of 101 with a valid actor: rejected, nothing sent.
C7_Witness ==
    /\ tool = "get_author_feed" /\ params.limit = Some(101)
    /\ IsAtIdentifier(params.actor)
    /\ toolResult = Err("failed to parse limit") /\ toolLog = <<>>

(***************************************************************************)
(* C8. An omitted limit or max_num reaches the API client as 10, an        *)
(* omitted depth as 1 and an omitted parent_height as 10; a supplied value *)
(* is never replaced by the default.                                       *)
(***************************************************************************)
C8_DefaultsApplied ==
    /\ (LimitTool /\ toolLog # <<>>) =>
          toolLog[1].limit = Some(IF params.limit = None THEN 10 ELSE params.limit[1])
    /\ (LimitTool /\ params.limit = None
          /\ (tool = "get_author_feed" => IsAtIdentifier(params.actor))) =>
          Len(toolLog) = 1
    /\ (tool = "get_post_thread" /\ toolLog # <<>>) =>
          /\ toolLog[1].depth =
                Some(IF params.depth = None THEN 1 ELSE params.depth[1])
          /\ toolLog[1].parent_height =
                Some(IF params.parent_height = None THEN 10 ELSE params.parent_height[1])
    /\ (tool = "get_post_thread" /\ params.depth = None /\ params.parent_height = None) =>
          Len(toolLog) = 1
    /\ pc[1] # "idle" =>
          \A r \in RequestsOf(1, ListNsid) :
              r.limit = Some(IF max_num[1] = None THEN 10 ELSE max_num[1][1])
    /\ (pc[1] # "idle" /\ max_num[1] = None) => CountOf(1, ListNsid) = 1

\* get_post_thread called without depth and parent_height.
C8_Witness ==
    /\ tool = "get_post_thread" /\ params.depth = None /\ params.parent_height = None
    /\ tpc = "done" /\ toolResult.kind = "success"
    /\ toolLog[1].depth = Some(1) /\ toolLog[1].parent_height = Some(10)

(***************************************************************************)
(* C9. No tool call ends in a panic: every call that ends ends in a        *)
(* result, a failure in an error result.                                   *)
(***************************************************************************)
C9_NoPanic ==
    /\ tpc # "panicked"
    /\ tpc = "done" => toolResult.kind \in {"success", "error"}
    /\ \A i \in Invocations : pc[i] = "done" => result[i].kind \in {"success", "error"}


\* Every task of invocation i has finished.
AllJoined(i) == \A k \in DOMAIN handles[i] : handles[i][k].state = "done"

(***************************************************************************)
(* C11 as stated. The invocation returns, with a result or with an error,  *)
(* only after all the tasks it dispatched have finished: it has never      *)
(* returned while one of them is still to finish.                          *)
(***************************************************************************)
C11_JoinAll ==
    \A i \in Invocations : pc[i] = "done" => AllJoined(i)

(***************************************************************************)
(* C11 amended. The invocation returns a success only after all the tasks  *)
(* it dispatched have finished. It returns the error of a failed fetch     *)
(* once the tasks up to the first failing one in feed order have finished, *)
(* and the error of the missing identity without waiting for any task: in  *)
(* both cases tasks may still be running.                                  *)
(***************************************************************************)
C11_JoinBeforeSuccess ==
    \A i \in Invocations :
        /\ (pc[i] = "done" /\ result[i].kind = "success") => AllJoined(i)
        /\ (pc[i] = "done" /\ IsError(result[i], "failed to get post thread")) =>
              /\ \A k \in 1..next[i] : handles[i][k].state = "done"
              /\ \A k \in 1..(next[i] - 1) : handles[i][k].output.ok
              /\ ~handles[i][next[i]].output.ok

\* The first fetch failed and its error was returned while the second task is
\* still running.
C11_Witness ==
    /\ pc[1] = "done" /\ Len(handles[1]) = 2
    /\ IsError(result[1], "failed to get post thread")
    /\ handles[1][1].state = "done" /\ handles[1][2].state = "running"


(***************************************************************************)
(* C12. Every task the invocation dispatched eventually finishes, whether  *)
(* an earlier task has failed, the identity is missing or the invocation   *)
(* has already returned: no task is cancelled.                             *)
(***************************************************************************)
C12_TasksComplete ==
    \A k \in 1..MaxNotifs :
        [](k \in DOMAIN handles[1] =>
              <>(k \in DOMAIN handles[1] /\ handles[1][k].state = "done"))

\* The invocation failed for lack of an identity, awaiting no task, and both its
\* tasks have finished, the first with a failure.
C12_Witness ==
    /\ pc[1] = "done" /\ result[1] = Err("failed to get did")
    /\ Len(handles[1]) = 2 /\ AllJoined(1)
    /\ ~handles[1][1].output.ok /\ handles[1][2].output.ok


\* The notifications the service lists for the argument m.
ListedOf(m) ==
    UpstreamListNotifications(
        [limit |-> Some(unwrap_or(m, DEFAULT_LIMIT)), reasons |-> Some(<<"mention", "reply">>)])
\* The first position in feed order of a notification whose thread fetch fails,
\* 0 if there is none.
FirstFailing(ns) ==
    IF \E k \in 1..Len(ns) : ns[k].uri \in threadFails
    THEN CHOOSE k \in 1..Len(ns) :
            /\ ns[k].uri \in threadFails
            /\ \A j \in 1..(k - 1) : ns[j].uri \notin threadFails
    ELSE 0
\* r is the outcome that the argument m and the service's answers determine.
OutcomeOf(r, m) ==
    LET v == unwrap_or(m, DEFAULT_LIMIT)
        ns == ListedOf(m)
    IN  IF v < 1 \/ v > LIMIT_MAX THEN r = Err("failed to parse limit")
        ELSE IF listFails THEN r = Err("failed to list notifications")
        ELSE IF sessionDid = None THEN r = Err("failed to get did")
        ELSE IF FirstFailing(ns) # 0
             THEN r = ErrData("failed to get post thread",
                              UpstreamError(ns[FirstFailing(ns)].uri))
        ELSE /\ r.kind = "success"
             /\ Idents(r.content) =
                   Idents(SelectSeq(ns,
                       LAMBDA n : ~RepliedDirectlyBy(threads[n.uri], sessionDid[1])))

(***************************************************************************)
(* C13. The outcome of an invocation is the same for every order in which  *)
(* its tasks finish: it is the outcome the argument and the service's      *)
(* answers determine, on failure the error of the first failing            *)
(* notification in feed order; replied holds the replied posts among the   *)
(* handles the loop has passed, whatever tasks have finished by then.      *)
(***************************************************************************)
C13_OrderIndependent ==
    \A i \in Invocations :
        /\ pc[i] = "done" => OutcomeOf(result[i], max_num[i])
        /\ replied[i] =
              {notifications[i][k].uri : k \in
                 {j \in 1..(next[i] - 1) :
                     RepliedDirectlyBy(threads[notifications[i][j].uri], did[i])}}

\* Two notifications of different posts whose thread fetches both fail: the error
\* returned is the first one's, and the second task has finished too.
C13_Witness ==
    /\ pc[1] = "done" /\ Len(handles[1]) = 2
    /\ notifications[1][1].uri # notifications[1][2].uri
    /\ AllJoined(1) /\ ~handles[1][1].output.ok /\ ~handles[1][2].output.ok
    /\ result[1] = ErrData("failed to get post thread",
                           UpstreamError(notifications[1][1].uri))
    /\ result[1] # ErrData("failed to get post thread",
                           UpstreamError(notifications[1][2].uri))


(***************************************************************************)
(* C14. If the list request fails, the invocation fails with the error of  *)
(* the list request after exactly one list request, asking for the reasons *)
(* mention and reply: it is not repeated, and no task is spawned and no    *)
(* thread request issued.                                                  *)
(***************************************************************************)
C14_ListFailure ==
    \A i \in Invocations :
        /\ \A r \in RequestsOf(i, ListNsid) : r.reasons = Some(<<"mention", "reply">>)
        /\ (listFails /\ pc[i] \in {"list", "done"}
                      /\ result[i] # Err("failed to parse limit")) =>
              /\ CountOf(i, ListNsid) = 1
              /\ CountOf(i, ThreadNsid) = 0
              /\ handles[i] = <<>> /\ notifications[i] = <<>>
              /\ pc[i] = "done" => result[i] = Err("failed to list notifications")

\* The list request has failed and the invocation has returned its error.
C14_Witness ==
    /\ listFails /\ pc[1] = "done"
    /\ result[1] = Err("failed to list notifications")
    /\ CountOf(1, ListNsid) = 1 /\ CountOf(1, ThreadNsid) = 0


\* The positions of the create-record requests among the requests of the call.
CreatePositions == {k \in 1..Len(toolLog) : toolLog[k].nsid = CreateNsid}
\* The call is a create_post that has passed the facet detection.
PostStarted == tool = "create_post" /\ tpc \notin {"idle", "facets"}
\* The reply target of the call cannot be fetched: its URI is malformed.
MalformedReply == params.reply # None /\ get_post(params.reply[1]).outcome # "ok"
\* What was fetched for the reply target cannot be replied to: not found, no
\* content hash, or no post record.
UnusableTarget ==
    /\ fetched # None
    /\ ~fetched[1].ok \/ fetched[1].cid = None \/ ~fetched[1].value.decodes

\* A create_post call issues at most one create-record request, as its last
\* request, after the facet detection and, when replying, after the target was
\* fetched with a content hash and a post record.
C15_WriteGuarded ==
    tool = "create_post" =>
        /\ Cardinality(CreatePositions) <= 1
        /\ CreatePositions # {} =>
              /\ CreatePositions = {Len(toolLog)}
              /\ tpc \in {"create_record", "done"}
              /\ rt = RichText(params.text)
              /\ params.reply = None => Len(toolLog) = 1
              /\ params.reply # None =>
                    /\ ~MalformedReply /\ fetched # None /\ ~UnusableTarget
                    /\ toolLog = <<get_post(params.reply[1]).request,
                                   CreateRecordRequest(rt, Some(ReplyRef(fetched[1])))>>

\* When one of the steps before the write fails, the call has returned an error
\* and has issued no create-record request.
C15_FailuresReturnErrors ==
    (PostStarted /\ (MalformedReply \/ UnusableTarget)) =>
        /\ tpc = "done" /\ toolResult.kind = "error"
        /\ CreatePositions = {}

(***************************************************************************)
(* C15. One create_post call issues at most one create-record request, and *)
(* only after the facet detection and, when replying, the fetch of the     *)
(* target, its content hash and the decoding of its record have succeeded; *)
(* when one of these fails (malformed reply URI, target not found, no      *)
(* content hash, undecodable record) the call returns an error and no      *)
(* record is created.                                                      *)
(***************************************************************************)
C15_AtMostOneWrite == C15_WriteGuarded /\ C15_FailuresReturnErrors

=============================================================================
